---- MODULE Spec2Model ----
(***************************************************************************)
(* Model of the five daily-bar screeners of the repository:                *)
(*   Golden_Retracement_Premium.py   ("Premium")                           *)
(*   Golden_Retracement_Strategy.py  ("Strategy")                          *)
(*   one_pattern_strategy.py         ("OnePattern")                        *)
(*   yin_line_logic.py               ("YinLine")                           *)
(*   stock_reversal_screener.py      ("Reversal")                          *)
(*                                                                         *)
(* Units.  Prices are integers in fen (0.01 yuan), so the price band       *)
(* 5.0 .. 20.0 is 500 .. 2000.  Volumes are integers in lots, the turnover *)
(* amount is in units of 1e8 yuan, percentages are in whole percent.       *)
(* Every comparison of the source against a decimal factor (0.9, 0.1, ...) *)
(* is cross-multiplied into integers; arithmetic is exact (the rounding of *)
(* binary floating point is not modelled).  Text is a sequence of code     *)
(* points, compared as Python compares str.                                *)
(***************************************************************************)
EXTENDS Integers, Sequences, FiniteSets, TLC

(***************************************************************************)
(* Bounds of the model.                                                    *)
(***************************************************************************)
MaxBars == 62
MaxUniverse == 2
MaxSignals == 6
MaxCloses == 13

(***************************************************************************)
(* Floating point: a cell or an indicator is an integer or NaN.  Every     *)
(* comparison with NaN is False, every arithmetic result with NaN is NaN.  *)
(***************************************************************************)
NaN == -99999999

IsNaN(x) == x = NaN

LT(a, b) == ~IsNaN(a) /\ ~IsNaN(b) /\ a < b

LE(a, b) == ~IsNaN(a) /\ ~IsNaN(b) /\ a <= b

GT(a, b) == ~IsNaN(a) /\ ~IsNaN(b) /\ a > b

GE(a, b) == ~IsNaN(a) /\ ~IsNaN(b) /\ a >= b

Sub(a, b) == IF IsNaN(a) \/ IsNaN(b) THEN NaN ELSE a - b

Add(a, b) == IF IsNaN(a) \/ IsNaN(b) THEN NaN ELSE a + b

Scale(k, a) == IF IsNaN(a) THEN NaN ELSE k * a

Abs(a) == IF IsNaN(a) THEN NaN ELSE IF a < 0 THEN 0 - a ELSE a

\* a / b > p / q for a float division a / b with a, b >= 0 and q > 0:
\* x / 0 is +inf for x > 0 and NaN for x = 0.
DivGT(a, b, p, q) ==
    IF IsNaN(a) \/ IsNaN(b) THEN FALSE
    ELSE IF b = 0 THEN a > 0
    ELSE q * a > p * b

\* a / b < p / q, same conventions.
DivLT(a, b, p, q) ==
    IF IsNaN(a) \/ IsNaN(b) THEN FALSE
    ELSE IF b = 0 THEN FALSE
    ELSE q * a < p * b

(***************************************************************************)
(* Text: str as a sequence of code points.                                 *)
(***************************************************************************)
Ch0 == 48

ChFen == 20998

ChS == 83

ChT == 84

ChStar == 42

ST == <<ChS, ChT>>

StarST == <<ChStar, ChS, ChT>>

\* str.startswith(p)
StartsWith(s, p) == Len(s) >= Len(p) /\ SubSeq(s, 1, Len(p)) = p

\* p in s  (substring test)
Contains(s, p) ==
    \E i \in 0..(Len(s) - Len(p)) : SubSeq(s, i + 1, i + Len(p)) = p

\* str(n) for a non-negative integer n
RECURSIVE Str(_)
Str(n) == IF n < 10 THEN <<Ch0 + n>> ELSE Str(n \div 10) \o <<Ch0 + (n % 10)>>

\* int(s) for a text of decimal digits (what read_csv infers for a numeric column)
RECURSIVE IntOf(_)
IntOf(s) ==
    IF s = <<>> THEN 0
    ELSE 10 * IntOf(SubSeq(s, 1, Len(s) - 1)) + (s[Len(s)] - Ch0)

\* str.zfill(w)
RECURSIVE ZFill(_, _)
ZFill(s, w) == IF Len(s) >= w THEN s ELSE ZFill(<<Ch0>> \o s, w)

\* Python's str ordering: a < b
RECURSIVE StrLess(_, _)
StrLess(a, b) ==
    IF b = <<>> THEN FALSE
    ELSE IF a = <<>> THEN TRUE
    ELSE IF a[1] # b[1] THEN a[1] < b[1]
    ELSE StrLess(Tail(a), Tail(b))

\* f"{score}分"
FormatScore(score) == Str(score) \o <<ChFen>>

(***************************************************************************)
(* Data.  A Bar is one row of a stock_data CSV; the column names of the    *)
(* source are open 开盘, high 最高, low 最低, close 收盘, volume 成交量,   *)
(* pct 涨跌幅, amount 成交额, turnover 换手率, date 日期, code 股票代码.   *)
(* Rows are in date order (the files hold one row per trading day, oldest  *)
(* first), so the date column is the row's position.                       *)
(* A file is [code, readable, columns, rows]: code is the file's base name,*)
(* readable is whether pd.read_csv returns a frame (it raises on an empty  *)
(* or damaged file), columns the column names the file has.                *)
(***************************************************************************)
AllColumns ==
    {"date", "open", "high", "low", "close", "volume", "pct", "amount",
     "turnover", "code"}

BaseBar ==
    [open |-> 1000, high |-> 1005, low |-> 995, close |-> 1000, volume |-> 10,
     pct |-> 0, amount |-> 10, turnover |-> 5]

\* The setup bar (T-1) of an input series.
SetupBar(o, c, off, v) ==
    [open |-> o, high |-> (IF o > c THEN o ELSE c) + 5,
     low |-> (IF o < c THEN o ELSE c) - off,
     close |-> c, volume |-> v, pct |-> ((c - 1000) * 100) \div 1000,
     amount |-> 10, turnover |-> 5]

\* The latest bar (T_Now) of an input series.
LatestBar(o, c, v, p) ==
    [open |-> o, high |-> (IF o > c THEN o ELSE c) + 5,
     low |-> (IF o < c THEN o ELSE c) - 5,
     close |-> c, volume |-> v, pct |-> p, amount |-> 10, turnover |-> 5]

\* An input series of n rows: base rows, then the setup bar and the latest
\* bar; with gap > 0 the close cell of row n - gap is missing (NaN).
Rows(n, t1, t0, gap) ==
    [i \in 1..n |->
        IF i = n THEN t0
        ELSE IF i = n - 1 THEN t1
        ELSE IF gap > 0 /\ i = n - gap THEN [BaseBar EXCEPT !.close = NaN]
        ELSE BaseBar]

\* What a defect of the file leaves of it.
Defects == {"none", "unreadable", "no_close", "no_volume", "no_pct"}

MkFile(code, defect, rows) ==
    [code |-> code,
     readable |-> defect # "unreadable",
     columns |-> AllColumns \ (CASE defect = "no_close" -> {"close"}
                                 [] defect = "no_volume" -> {"volume"}
                                 [] defect = "no_pct" -> {"pct"}
                                 [] OTHER -> {}),
     rows |-> rows]

(***************************************************************************)
(* Results of a per-symbol evaluation.                                     *)
(***************************************************************************)
NoMatch == [kind |-> "None"]

Fault == [kind |-> "Fault"]

IsSignal(r) == r.kind = "Signal"

\* a symbol boundary that lets the fault through
CatchNothing(r) == r

\* try: ... except Exception: return None
CatchAll(r) == IF r.kind = "Fault" THEN NoMatch ELSE r

\* dict.get(key, default) on a dict built by dict(zip(keys, names)): a later
\* pair with the same key replaces an earlier one.
DictGet(d, key, default) ==
    LET hits == {i \in 1..Len(d) : d[i].key = key}
    IN IF hits = {} THEN default
       ELSE d[CHOOSE i \in hits : \A j \in hits : j <= i].name

(***************************************************************************)
(* Rolling windows (pandas rolling(w), min_periods = w).                   *)
(***************************************************************************)
RECURSIVE SumCol(_, _, _, _)
SumCol(df, col, lo, hi) ==
    IF lo > hi THEN 0 ELSE df[hi][col] + SumCol(df, col, lo, hi - 1)

\* w * df[col].rolling(w).mean() at row i: the window's sum, NaN before the
\* window is full or when a cell of the window is missing.
RollSum(df, col, w, i) ==
    IF i < w \/ i > Len(df) THEN NaN
    ELSE IF \E j \in (i - w + 1)..i : IsNaN(df[j][col]) THEN NaN
    ELSE SumCol(df, col, i - w + 1, i)

(***************************************************************************)
(* The name registry stock_names.csv: rows [code, name], code being the    *)
(* cell's text.                                                            *)
(***************************************************************************)
\* Text of a digit sequence: T(<<3, 0>>) is "30".
T(ds) == [i \in DOMAIN ds |-> Ch0 + ds[i]]

\* "未知"
Unknown == <<26410, 30693>>

\* Golden_Retracement_*.main: pd.read_csv infers an integer code column;
\* name_dict = dict(zip(code.astype(str).str.zfill(6), name)).
name_dict(stock_names) ==
    [i \in 1..Len(stock_names) |->
        [key |-> ZFill(Str(IntOf(stock_names[i].code)), 6),
         name |-> stock_names[i].name]]

(***************************************************************************)
(* Golden_Retracement_Premium.analyze_stock                                *)
(***************************************************************************)
\* a minimum history one bar short
Premium_MinHistory_Short == 40 - 1

\* if len(df) < 40: return None
Premium_MinHistory == 40

MIN_CLOSE_PRICE == 500

MAX_CLOSE_PRICE == 2000

\* code.startswith(('30', '688', '8', '9')) or "ST" in name_dict.get(code, "")
Premium_excluded(code, nd) ==
    \/ \E p \in {T(<<3, 0>>), T(<<6, 8, 8>>), T(<<8>>), T(<<9>>)} : StartsWith(code, p)
    \/ Contains(DictGet(nd, code, <<>>), ST)

\* 21 * MA21 at row i
MA21(df, i) == RollSum(df, "close", 21, i)

\* 21 * MA21_Slope at row i: df['MA21'].diff(3)
MA21_Slope(df, i) == IF i <= 3 THEN NaN ELSE Sub(MA21(df, i), MA21(df, i - 3))

\* 5 * V_MA5 at row i
V_MA5(df, i) == RollSum(df, "volume", 5, i)

\* body_size = t_1['开盘'] - t_1['收盘']
Premium_body_size(t_1) == Sub(t_1.open, t_1.close)

\* lower_shadow = t_1['收盘'] - t_1['最低']
lower_shadow(t_1) == Sub(t_1.close, t_1.low)

\* is_negative = t_1['收盘'] < t_1['开盘']
is_negative(t_1) == LT(t_1.close, t_1.open)

\* the shadow test without the guard on the body size
Premium_is_shaved_unguarded(t_1) ==
    LE(Scale(10, lower_shadow(t_1)), Premium_body_size(t_1))

\* is_shaved = lower_shadow <= (body_size * 0.1) if body_size > 0 else False
Premium_is_shaved(t_1) ==
    IF GT(Premium_body_size(t_1), 0)
    THEN LE(Scale(10, lower_shadow(t_1)), Premium_body_size(t_1))
    ELSE FALSE

\* is_extreme_low_vol = t_1['成交量'] < t_1['V_MA5'] * 0.9
Premium_is_extreme_low_vol(df, i) ==
    LT(Scale(50, df[i].volume), Scale(9, V_MA5(df, i)))

\* is_positive = t_0['收盘'] > t_0['开盘']
Premium_is_positive(t_0) == GT(t_0.close, t_0.open)

\* is_reclaim = t_0['收盘'] > (t_1['收盘'] + body_size * 0.8)
Premium_is_reclaim(t_0, t_1) ==
    GT(Scale(10, t_0.close),
       Add(Scale(10, t_1.close), Scale(8, Premium_body_size(t_1))))

\* the condition of line 60
Premium_match(df, n) ==
    /\ is_negative(df[n - 1])
    /\ Premium_is_shaved(df[n - 1])
    /\ Premium_is_extreme_low_vol(df, n - 1)
    /\ Premium_is_positive(df[n])
    /\ Premium_is_reclaim(df[n], df[n - 1])

\* score: 60, +20 when real_vol_ratio > 1.5, +20 when t_0 close > t_1 open
Premium_score(t_0, t_1) ==
    60 + (IF DivGT(t_0.volume, t_1.volume, 3, 2) THEN 20 ELSE 0)
       + (IF GT(t_0.close, t_1.open) THEN 20 ELSE 0)

Premium_advice(score) ==
    IF score >= 100 THEN "all_in" ELSE IF score >= 80 THEN "active" ELSE "watch"

Premium_signal(file, nd, df, n) ==
    [kind |-> "Signal",
     code |-> file.code,
     name |-> DictGet(nd, file.code, Unknown),
     price |-> df[n].close,
     pct |-> df[n].pct,
     strength |-> FormatScore(Premium_score(df[n], df[n - 1])),
     advice |-> Premium_advice(Premium_score(df[n], df[n - 1])),
     stop |-> df[n - 1].low]

\* The body of the try block: a Signal, NoMatch, or Fault where a statement
\* raises.
Premium_try(file, nd) ==
    LET df == file.rows
        n == Len(df)
    IN IF ~file.readable THEN Fault
       ELSE IF n < Premium_MinHistory THEN NoMatch
       ELSE IF Premium_excluded(file.code, nd) THEN NoMatch
       ELSE IF n < 1 \/ "close" \notin file.columns THEN Fault
       ELSE IF ~(GE(df[n].close, MIN_CLOSE_PRICE) /\ LE(df[n].close, MAX_CLOSE_PRICE)) THEN NoMatch
       ELSE IF "volume" \notin file.columns THEN Fault
       ELSE IF n < 3 THEN Fault
       ELSE IF LE(MA21_Slope(df, n), 0) THEN NoMatch
       ELSE IF LT(Scale(21, df[n - 1].close), MA21(df, n - 1)) THEN NoMatch
       ELSE IF ~Premium_match(df, n) THEN NoMatch
       ELSE IF "pct" \notin file.columns THEN Fault
       ELSE Premium_signal(file, nd, df, n)

Premium_analyze_stock(file, nd) == CatchAll(Premium_try(file, nd))

(***************************************************************************)
(* Golden_Retracement_Strategy.analyze_stock                               *)
(***************************************************************************)
Strategy_MinHistory == 30

\* code.startswith('30') or "ST" in name_dict.get(code, "")
Strategy_excluded(code, nd) ==
    \/ StartsWith(code, T(<<3, 0>>))
    \/ Contains(DictGet(nd, code, <<>>), ST)

\* body_size = abs(t_1['开盘'] - t_1['收盘'])
Strategy_body_size(t_1) == Abs(Sub(t_1.open, t_1.close))

\* is_shaved_bottom = lower_shadow <= (body_size * 0.05) if body_size > 0 else False
is_shaved_bottom(t_1) ==
    IF GT(Strategy_body_size(t_1), 0)
    THEN LE(Scale(20, lower_shadow(t_1)), Strategy_body_size(t_1))
    ELSE FALSE

\* is_low_volume = t_1['成交量'] < t_1['Vol_MA5'] * 1.2
is_low_volume(df, i) == LT(Scale(25, df[i].volume), Scale(6, V_MA5(df, i)))

\* touch_ma21 = abs(t_1['最低'] - t_1['MA21']) / t_1['MA21'] < 0.015
touch_ma21(df, i) ==
    DivLT(Abs(Sub(Scale(21, df[i].low), MA21(df, i))), MA21(df, i), 15, 1000)

\* is_rebound = t_0['收盘'] > t_1['收盘']
is_rebound(t_0, t_1) == GT(t_0.close, t_1.close)

\* the condition of line 59
Strategy_match(df, n) ==
    /\ is_negative(df[n - 1])
    /\ is_shaved_bottom(df[n - 1])
    /\ touch_ma21(df, n - 1)
    /\ is_rebound(df[n], df[n - 1])

Strategy_score(t_0, t_1, t_2) ==
    (IF GT(t_0.pct, 2) THEN 40 ELSE 0)
    + (IF LT(t_1.volume, t_2.volume) THEN 30 ELSE 0)
    + (IF GT(t_0.close, t_1.open) THEN 30 ELSE 0)

Strategy_advice(score) ==
    IF score >= 90 THEN "one_shot" ELSE IF score >= 60 THEN "light" ELSE "trial"

Strategy_signal(file, nd, df, n) ==
    [kind |-> "Signal",
     code |-> file.code,
     name |-> DictGet(nd, file.code, Unknown),
     price |-> df[n].close,
     strength |-> FormatScore(Strategy_score(df[n], df[n - 1], df[n - 2])),
     advice |-> Strategy_advice(Strategy_score(df[n], df[n - 1], df[n - 2])),
     stop |-> df[n - 1].low]

Strategy_try(file, nd) ==
    LET df == file.rows
        n == Len(df)
    IN IF ~file.readable THEN Fault
       ELSE IF n < Strategy_MinHistory THEN NoMatch
       ELSE IF Strategy_excluded(file.code, nd) THEN NoMatch
       ELSE IF n < 1 \/ "close" \notin file.columns THEN Fault
       ELSE IF ~(GE(df[n].close, MIN_CLOSE_PRICE) /\ LE(df[n].close, MAX_CLOSE_PRICE)) THEN NoMatch
       ELSE IF "volume" \notin file.columns THEN Fault
       ELSE IF n < 3 THEN Fault
       ELSE IF LT(Scale(21, df[n - 1].close), MA21(df, n - 1)) THEN NoMatch
       ELSE IF ~Strategy_match(df, n) THEN NoMatch
       ELSE IF "pct" \notin file.columns THEN Fault
       ELSE Strategy_signal(file, nd, df, n)

Strategy_analyze_stock(file, nd) == CatchAll(Strategy_try(file, nd))

(***************************************************************************)
(* Rationals <<num, den>>, den > 0, in lowest terms; RNaN is not-a-number. *)
(***************************************************************************)
RNaN == <<0, 0>>

RIsNaN(r) == r[2] = 0

RECURSIVE GCD(_, _)
GCD(a, b) == IF b = 0 THEN a ELSE GCD(b, a % b)

R(n, d) ==
    IF d = 0 THEN RNaN
    ELSE LET g == GCD(IF n < 0 THEN 0 - n ELSE n, d)
         IN <<n \div g, d \div g>>

\* an integer or NaN cell as a rational
ROf(x) == IF IsNaN(x) THEN RNaN ELSE <<x, 1>>

LCM(a, b) == (a \div GCD(a, b)) * b

RAdd(a, b) ==
    IF RIsNaN(a) \/ RIsNaN(b) THEN RNaN
    ELSE LET l == LCM(a[2], b[2])
         IN R(a[1] * (l \div a[2]) + b[1] * (l \div b[2]), l)

RNeg(a) == IF RIsNaN(a) THEN RNaN ELSE <<0 - a[1], a[2]>>

RSub(a, b) == RAdd(a, RNeg(b))

RMul(a, b) ==
    IF RIsNaN(a) \/ RIsNaN(b) THEN RNaN
    ELSE LET g1 == GCD(IF a[1] < 0 THEN 0 - a[1] ELSE a[1], b[2])
             g2 == GCD(IF b[1] < 0 THEN 0 - b[1] ELSE b[1], a[2])
             h1 == IF g1 = 0 THEN 1 ELSE g1
             h2 == IF g2 = 0 THEN 1 ELSE g2
         IN R((a[1] \div h1) * (b[1] \div h2), (a[2] \div h2) * (b[2] \div h1))

\* a / b for b > 0
RDiv(a, b) ==
    IF RIsNaN(a) \/ RIsNaN(b) THEN RNaN ELSE RMul(a, <<b[2], b[1]>>)

RLT(a, b) ==
    /\ ~RIsNaN(a)
    /\ ~RIsNaN(b)
    /\ LET l == LCM(a[2], b[2])
       IN a[1] * (l \div a[2]) < b[1] * (l \div b[2])

RLE(a, b) == ~RIsNaN(a) /\ ~RIsNaN(b) /\ ~RLT(b, a)

RGT(a, b) == RLT(b, a)

RGE(a, b) == RLE(b, a)

(***************************************************************************)
(* yin_line_logic.get_indicators                                           *)
(***************************************************************************)
\* the column 收盘 of a frame
Closes(df) == [i \in 1..Len(df) |-> df[i].close]

\* delta = series.diff()
delta(series, i) == IF i <= 1 THEN NaN ELSE Sub(series[i], series[i - 1])

\* delta.where(delta > 0, 0)
gain(series, i) == IF GT(delta(series, i), 0) THEN delta(series, i) ELSE 0

\* -delta.where(delta < 0, 0)
loss(series, i) == IF LT(delta(series, i), 0) THEN 0 - delta(series, i) ELSE 0

RECURSIVE SumGain(_, _, _)
SumGain(series, lo, hi) ==
    IF lo > hi THEN 0 ELSE gain(series, hi) + SumGain(series, lo, hi - 1)

RECURSIVE SumLoss(_, _, _)
SumLoss(series, lo, hi) ==
    IF lo > hi THEN 0 ELSE loss(series, hi) + SumLoss(series, lo, hi - 1)

\* cal_rsi(series, n) at row i.  gain and loss are rolling(n) means, so
\* rs = gain / loss is the quotient of the two window sums: x / 0 is inf for
\* x > 0 (and 100 - 100 / (1 + inf) is 100), 0 / 0 is NaN.
cal_rsi(series, n, i) ==
    IF i < n \/ i > Len(series) THEN RNaN
    ELSE LET g == SumGain(series, i - n + 1, i)
             l == SumLoss(series, i - n + 1, i)
         IN IF l = 0 THEN (IF g = 0 THEN RNaN ELSE <<100, 1>>)
            ELSE R(100 * g, g + l)

\* One step of pandas' ewm(span, adjust=False).mean(): st = <<weighted, old_wt>>,
\* alpha = 2 / (span + 1).  A missing value carries weighted forward and ages
\* its weight; the first observation seeds the average.
EwmStep(st, cur, span) ==
    LET alpha == R(2, span + 1)
        aged == RMul(st[2], R(span - 1, span + 1))
    IN IF RIsNaN(st[1]) THEN <<cur, <<1, 1>>>>
       ELSE IF RIsNaN(cur) THEN <<st[1], aged>>
       ELSE IF st[1] = cur THEN <<st[1], <<1, 1>>>>
       ELSE <<RDiv(RAdd(RMul(aged, st[1]), RMul(alpha, cur)), RAdd(aged, alpha)),
              <<1, 1>>>>

\* series.ewm(span=span, adjust=False).mean() as a sequence
RECURSIVE EwmSeq(_, _, _)
EwmSeq(xs, span, st) ==
    IF xs = <<>> THEN <<>>
    ELSE LET nx == IF st = <<>> THEN <<xs[1], <<1, 1>>>>
                   ELSE EwmStep(st, xs[1], span)
         IN <<nx[1]>> \o EwmSeq(Tail(xs), span, nx)

ewm(xs, span) == EwmSeq(xs, span, <<>>)

\* dif = ema12 - ema26 as a sequence
dif(df) ==
    LET cs == [i \in 1..Len(df) |-> ROf(df[i].close)]
        ema12 == ewm(cs, 12)
        ema26 == ewm(cs, 26)
    IN [i \in 1..Len(df) |-> RSub(ema12[i], ema26[i])]

\* dea = dif.ewm(span=9)
dea(df) == ewm(dif(df), 9)

\* change = pct_change() * 100 > p at row i
change_gt(df, i, p) ==
    i > 1 /\ GT(Scale(100, Sub(df[i].close, df[i - 1].close)), Scale(p, df[i - 1].close))

\* change <= 0 at row i
change_le0(df, i) == i > 1 /\ LE(Sub(df[i].close, df[i - 1].close), 0)

\* ma20_up = ma20 > ma20.shift(1)
ma20_up(df, i) == i > 1 /\ GT(RollSum(df, "close", 20, i), RollSum(df, "close", 20, i - 1))

(***************************************************************************)
(* yin_line_logic.check_logic and the body of main's loop                  *)
(***************************************************************************)
YinLine_MinHistory == 60

\* 成交额 floor 800000000, in units of 1e8
MIN_AMOUNT == 8

\* the rows of df.tail(15) whose change is above 7.0
strong_days(df) ==
    LET n == Len(df)
    IN {j \in (IF n > 15 THEN n - 14 ELSE 1)..n : change_gt(df, j, 7)}

\* is_yin = curr['收盘'] < curr['开盘'] or curr['change'] <= 0
is_yin(df, n) == LT(df[n].close, df[n].open) \/ change_le0(df, n)

\* is_shrink = curr['成交量'] < (curr['v_ma5'] * 0.65)
is_shrink(df, n) == LT(Scale(100, df[n].volume), Scale(13, RollSum(df, "volume", 5, n)))

\* abs(curr['收盘'] - curr['ma<w>']) / curr['ma<w>'] <= 0.01
bias_ok(df, n, w) ==
    LET sm == RollSum(df, "close", w, n)
    IN LE(Scale(100, Abs(Sub(Scale(w, df[n].close), sm))), sm)

support_ma_key(df, n) ==
    IF bias_ok(df, n, 10) THEN "MA10" ELSE IF bias_ok(df, n, 5) THEN "MA5" ELSE "None"

\* check_logic(df): the support key of a match, "None" for (None, None)
check_logic(df) ==
    LET n == Len(df)
        curr == df[n]
        rsi6 == cal_rsi(Closes(df), 6, n)
        rsi12 == cal_rsi(Closes(df), 12, n)
        d == dif(df)[n]
        e == dea(df)[n]
        strong == strong_days(df)
        last_strong == CHOOSE j \in strong : \A k \in strong : k <= j
    IN IF n < YinLine_MinHistory THEN "None"
       ELSE IF ~(GE(curr.close, MIN_CLOSE_PRICE) /\ LE(curr.close, MAX_CLOSE_PRICE))
               \/ LT(curr.amount, MIN_AMOUNT) THEN "None"
       ELSE IF ~(RLE(<<50, 1>>, rsi6) /\ RLE(rsi6, <<82, 1>>)) THEN "None"
       ELSE IF RLT(rsi6, rsi12) THEN "None"
       ELSE IF ~(RGT(d, e) /\ RGT(RMul(<<2, 1>>, RSub(d, e)), <<-10, 1>>)) THEN "None"
       ELSE IF GT(Scale(2000, curr.close), Scale(112, RollSum(df, "close", 20, n)))
            THEN "None"
       ELSE IF ~ma20_up(df, n) THEN "None"
       ELSE IF strong = {} THEN "None"
       ELSE IF GT(Scale(100, curr.volume), Scale(55, df[last_strong].volume)) THEN "None"
       ELSE IF is_yin(df, n) /\ is_shrink(df, n) THEN support_ma_key(df, n)
       ELSE "None"

\* round(x, 2) of a rational, in hundredths
Round2(r) == (200 * r[1] + r[2]) \div (2 * r[2])

\* name_map = dict(zip(n_df['code'], n_df['name'])), the code column read as str
name_map(stock_names) ==
    [i \in 1..Len(stock_names) |->
        [key |-> stock_names[i].code, name |-> stock_names[i].name]]

\* the try block of main's loop: the row appended to results, NoMatch when
\* nothing is appended, Fault where a statement raises
YinLine_try(file, nm) ==
    LET df == file.rows
        n == Len(df)
    IN IF ~file.readable THEN Fault
       ELSE IF "close" \notin file.columns \/ "volume" \notin file.columns THEN Fault
       ELSE IF check_logic(df) = "None" THEN NoMatch
       ELSE [kind |-> "Signal",
             code |-> file.code,
             name |-> DictGet(nm, file.code, Unknown),
             price |-> df[n].close,
             type |-> check_logic(df),
             RSI6 |-> Round2(cal_rsi(Closes(df), 6, n))]

\* try: ... except: continue
YinLine_body(file, nm) == CatchAll(YinLine_try(file, nm))

(***************************************************************************)
(* one_pattern_strategy.filter_stock                                       *)
(***************************************************************************)
OnePattern_MinHistory == 60

RECURSIVE MaxCol(_, _, _, _)
MaxCol(df, col, lo, hi) ==
    IF lo > hi THEN NaN
    ELSE LET m == MaxCol(df, col, lo, hi - 1)
             x == df[hi][col]
         IN IF IsNaN(x) THEN m ELSE IF IsNaN(m) \/ x > m THEN x ELSE m

RECURSIVE MinCol(_, _, _, _)
MinCol(df, col, lo, hi) ==
    IF lo > hi THEN NaN
    ELSE LET m == MinCol(df, col, lo, hi - 1)
             x == df[hi][col]
         IN IF IsNaN(x) THEN m ELSE IF IsNaN(m) \/ x < m THEN x ELSE m

\* code.startswith(('30', '688', '8', '4')), then not (60 or 00)
OnePattern_excluded(code) ==
    \/ \E p \in {T(<<3, 0>>), T(<<6, 8, 8>>), T(<<8>>), T(<<4>>)} : StartsWith(code, p)
    \/ ~(StartsWith(code, T(<<6, 0>>)) \/ StartsWith(code, T(<<0, 0>>)))

\* the first row of df.iloc[-k-1:-1]
TailFrom(n, k) == IF n - k < 1 THEN 1 ELSE n - k

\* A. not (MA20.iloc[-1] <= MA20.iloc[-6])
OnePattern_trend(df, n) ==
    ~LE(RollSum(df, "close", 20, n), RollSum(df, "close", 20, n - 5))

\* B. not (amplitude > 0.15) over window_15 = df.iloc[-16:-1]
OnePattern_flat(df, n) ==
    LET high_15 == MaxCol(df, "high", TailFrom(n, 15), n - 1)
        low_15 == MinCol(df, "low", TailFrom(n, 15), n - 1)
    IN ~GT(Scale(100, Sub(high_15, low_15)), Scale(15, low_15))

\* C. not (vol_short > vol_long): the means of the volume over window_15 and
\* over df.iloc[-61:-1]
OnePattern_quiet(df, n) ==
    LET vol_short == SumCol(df, "volume", TailFrom(n, 15), n - 1)
        k_short == n - TailFrom(n, 15)
        vol_long == SumCol(df, "volume", TailFrom(n, 60), n - 1)
        k_long == n - TailFrom(n, 60)
    IN ~(vol_short * k_long > vol_long * k_short)

\* 3. the breakout bar: 5.0 <= pct <= 10.1, close > high_15,
\* vol_ratio = volume / vol_short >= 2.5, 3.0 <= turnover <= 10.0
OnePattern_breakout(df, n) ==
    LET high_15 == MaxCol(df, "high", TailFrom(n, 15), n - 1)
        vol_short == SumCol(df, "volume", TailFrom(n, 15), n - 1)
        k_short == n - TailFrom(n, 15)
    IN /\ GE(Scale(10, df[n].pct), 50) /\ LE(Scale(10, df[n].pct), 101)
       /\ ~LE(df[n].close, high_15)
       /\ ~DivLT(k_short * df[n].volume, vol_short, 5, 2)
       /\ GE(df[n].turnover, 3) /\ LE(df[n].turnover, 10)

OnePattern_try(file) ==
    LET df == file.rows
        n == Len(df)
        code == ZFill(Str(IntOf(file.code)), 6)
    IN IF ~file.readable THEN Fault
       ELSE IF n = 0 \/ n < OnePattern_MinHistory THEN NoMatch
       ELSE IF "close" \notin file.columns THEN Fault
       ELSE IF ~(GE(df[n].close, MIN_CLOSE_PRICE) /\ LE(df[n].close, MAX_CLOSE_PRICE))
            THEN NoMatch
       ELSE IF OnePattern_excluded(code) THEN NoMatch
       ELSE IF n < 6 THEN Fault
       ELSE IF ~OnePattern_trend(df, n) THEN NoMatch
       ELSE IF ~OnePattern_flat(df, n) THEN NoMatch
       ELSE IF "volume" \notin file.columns THEN Fault
       ELSE IF ~OnePattern_quiet(df, n) THEN NoMatch
       ELSE IF "pct" \notin file.columns THEN Fault
       ELSE IF ~OnePattern_breakout(df, n) THEN NoMatch
       ELSE [kind |-> "Signal",
             code |-> code,
             price |-> df[n].close,
             pct |-> df[n].pct,
             turnover |-> df[n].turnover,
             remark |-> "platform_breakout"]

filter_stock(file) == CatchAll(OnePattern_try(file))

(***************************************************************************)
(* stock_reversal_screener                                                 *)
(***************************************************************************)
\* max(MA_PERIODS)
Reversal_MinHistory == 20

\* the window of Low_Reversal_Check
LowReversalWindow == 30

\* main: stock_name_df is read with an inferred integer code column, then
\* StockCode = code.astype(str)
stock_name_df(stock_names) ==
    [i \in 1..Len(stock_names) |->
        [key |-> Str(IntOf(stock_names[i].code)), name |-> stock_names[i].name]]

\* name_row = stock_name_df[StockCode == stock_code]: the matching rows
name_row(snd, stock_code) == {i \in 1..Len(snd) : snd[i].key = stock_code}

check_stock_code_and_name(stock_code, snd) ==
    IF StartsWith(stock_code, T(<<3, 0>>)) THEN FALSE
    ELSE IF ~(StartsWith(stock_code, T(<<6, 0>>)) \/ StartsWith(stock_code, T(<<0, 0>>)))
         THEN FALSE
    ELSE LET hits == name_row(snd, stock_code)
             name == snd[CHOOSE i \in hits : \A j \in hits : i <= j].name
         IN IF hits # {} /\ (Contains(name, ST) \/ Contains(name, StarST)) THEN FALSE
            ELSE TRUE

\* Low_Reversal_Check at row i: rolling(30).apply of
\* (x[:-1] <= MA20 on the same rows).any(), 1 or 0, NaN before 30 rows
Low_Reversal_Check(df, i) ==
    IF i < LowReversalWindow THEN NaN
    ELSE IF \E j \in (i - LowReversalWindow + 1)..i : IsNaN(df[j].close) THEN NaN
    ELSE IF \E j \in (i - LowReversalWindow + 1)..(i - 1) :
                LE(Scale(20, df[j].close), RollSum(df, "close", 20, j))
         THEN 1 ELSE 0

\* Python's truth value of a float: NaN is true, 0.0 is false
Truthy(x) == IsNaN(x) \/ x # 0

apply_screener_logic(df, stock_code) ==
    LET n == Len(df)
        latest == df[n]
        ma5 == RollSum(df, "close", 5, n)
        ma20 == RollSum(df, "close", 20, n)
        vol_ma5 == RollSum(df, "volume", 5, n)
        vol_ma20 == RollSum(df, "volume", 20, n)
    IN IF n = 0 \/ n < Reversal_MinHistory THEN NoMatch
       ELSE IF ~(GE(latest.close, MIN_CLOSE_PRICE) /\ LE(latest.close, MAX_CLOSE_PRICE))
            THEN NoMatch
       ELSE IF ~(GT(Scale(4, ma5), ma20) /\ GT(Scale(5, latest.close), ma5)) THEN NoMatch
       ELSE IF ~Truthy(Low_Reversal_Check(df, n)) THEN NoMatch
       ELSE IF ~GT(Scale(4, vol_ma5), vol_ma20) THEN NoMatch
       ELSE [kind |-> "Signal",
             code |-> stock_code,
             price |-> latest.close,
             MA5 |-> ma5,
             MA20 |-> ma20]

\* the try block of process_single_file
Reversal_try(file) ==
    IF ~file.readable THEN Fault
    ELSE IF {"date", "close", "volume", "open", "high", "low"} \ file.columns # {}
         THEN NoMatch
    ELSE IF Len(file.rows) < Reversal_MinHistory THEN NoMatch
    ELSE apply_screener_logic(file.rows, file.code)

process_single_file(file, snd) ==
    IF ~check_stock_code_and_name(file.code, snd) THEN NoMatch
    ELSE CatchAll(Reversal_try(file))

(***************************************************************************)
(* The ranking and reporting steps of the five main functions.             *)
(***************************************************************************)
Screeners == {"Premium", "Strategy", "OnePattern", "YinLine", "Reversal"}

\* the screeners that fan out over a worker pool
Pooled == {"Premium", "Strategy", "OnePattern", "Reversal"}

\* The order of the column sort_values sorts by: 信号强度 is a str column,
\* RSI6 a float column.
KeyLess(s, a, b) ==
    IF s = "YinLine" THEN a.RSI6 < b.RSI6 ELSE StrLess(a.strength, b.strength)

\* x placed into rows, already in descending order, behind every row that
\* is not below it
RECURSIVE InsertDesc(_, _, _)
InsertDesc(s, rows, x) ==
    IF rows = <<>> THEN <<x>>
    ELSE IF KeyLess(s, rows[1], x) THEN <<x>> \o rows
    ELSE <<rows[1]>> \o InsertDesc(s, Tail(rows), x)

\* DataFrame.sort_values(by=..., ascending=False): descending by the key
\* column, rows with equal keys in their order of collection (numpy sorts at
\* most 16 elements by insertion, and pandas reverses around the sort).
RECURSIVE sort_values(_, _)
sort_values(s, rows) ==
    IF rows = <<>> THEN <<>>
    ELSE InsertDesc(s, sort_values(s, SubSeq(rows, 1, Len(rows) - 1)), rows[Len(rows)])

TopN == 5

\* DataFrame.head(n)
head(rows, n) == IF Len(rows) <= n THEN rows ELSE SubSeq(rows, 1, n)

\* a missing name after a left merge
NoName == <<NaN>>

\* pd.merge(frame, names, on=code, how='left'): every row of frame, in order,
\* once per names row with its code, or once with a missing name
RECURSIVE merge(_, _)
merge(rows, names) ==
    IF rows = <<>> THEN <<>>
    ELSE LET r == rows[1]
             hits == SelectSeq(names, LAMBDA nr : nr.key = r.code)
         IN (IF hits = <<>> THEN <<[r EXCEPT !.kind = "Row"] @@ [name |-> NoName]>>
             ELSE [i \in 1..Len(hits) |->
                      [r EXCEPT !.kind = "Row"] @@ [name |-> hits[i].name]])
            \o merge(Tail(rows), names)

\* one_pattern_strategy.main: names_df code read as str, zfill(6)
OnePattern_names(stock_names) ==
    [i \in 1..Len(stock_names) |->
        [key |-> ZFill(stock_names[i].code, 6), name |-> stock_names[i].name]]

\* res_df[~res_df['name'].str.contains('ST', na=False)].dropna()
OnePattern_clean(rows) ==
    SelectSeq(rows, LAMBDA r : r.name # NoName /\ ~Contains(r.name, ST))

\* [r for r in results if r is not None]  (and `if r` in one_pattern_strategy)
not_none(results) == SelectSeq(results, IsSignal)

\* what main builds from the collected results
output_of(s, fl, stock_names) ==
    CASE s = "Premium" -> head(sort_values(s, fl), TopN)
      [] s = "Strategy" -> sort_values(s, fl)
      [] s = "YinLine" -> sort_values(s, fl)
      [] s = "OnePattern" ->
           IF fl = <<>> THEN <<>>
           ELSE OnePattern_clean(merge(fl, OnePattern_names(stock_names)))
      [] s = "Reversal" -> merge(fl, stock_name_df(stock_names))

\* a main that takes the save branch whatever it collected
outcome_of_unguarded(s, fl, out) == "saved"

\* the branch main ends in
outcome_of(s, fl, out) ==
    IF s = "OnePattern" THEN (IF out = <<>> THEN "no_candidates" ELSE "saved")
    ELSE (IF fl = <<>> THEN "no_candidates" ELSE "saved")

\* the per-symbol task of each screener
Evaluate(s, file, stock_names) ==
    CASE s = "Premium" -> Premium_analyze_stock(file, name_dict(stock_names))
      [] s = "Strategy" -> Strategy_analyze_stock(file, name_dict(stock_names))
      [] s = "OnePattern" -> filter_stock(file)
      [] s = "YinLine" -> YinLine_body(file, name_map(stock_names))
      [] s = "Reversal" -> process_single_file(file, stock_name_df(stock_names))

(***************************************************************************)
(* Inputs.                                                                 *)
(***************************************************************************)
\* a name without the marker, and a name with it
PlainName == <<30002, 30002>>

STName == <<ChStar, ChS, ChT, 30002>>

\* the code of the i-th file of the universe, with a two-digit board prefix
CodeAt(prefix, i) == T(prefix \o <<0, 0, 0, i>>)

\* a shaved-bottom pullback on low volume, then a strong bullish bar
SuperT1 == SetupBar(1030, 1010, 0, 8)

SuperT0 == LatestBar(1012, 1070, 25, 6)

\* a strong day, then a low-volume bearish bar back on the averages
YinT1 == SetupBar(1000, 1080, 0, 30)

YinT0 == LatestBar(1030, 1020, 6, -5)

Shapes ==
    {[t1 |-> SuperT1, t0 |-> SuperT0, gap |-> 0],
     [t1 |-> YinT1, t0 |-> YinT0, gap |-> 0]}

GapShapes == {[t1 |-> SuperT1, t0 |-> SuperT0, gap |-> 10]}

\* the setup and confirmation bars around the thresholds of the gates
GateShapes ==
    {[t1 |-> SetupBar(o1, c1, off, v1), t0 |-> LatestBar(o0, c0, v0, p0), gap |-> 0] :
        o1 \in {1010, 1030}, c1 \in {990, 1010}, off \in {0, 2, 10}, v1 \in {8, 9, 15},
        o0 \in {1012, 1080}, c0 \in {1005, 1015, 1030, 1070, 2100},
        v0 \in {8, 10, 13}, p0 \in {1, 6}}

\* one file of a scan: its name in the registry, its defect, its rows
ScanChoices ==
    {c \in [name : {PlainName, STName}, defect : {"none", "unreadable", "no_pct"},
            shape : Shapes] :
        c.defect = "none" \/ c.shape.t1 = SuperT1}

\* the board prefix of the i-th file of a scan
ScanPrefix(i) == IF i % 2 = 1 THEN <<6, 0>> ELSE <<0, 0>>

\* the single file of an evaluation: every length with a few shapes, and
\* the eligibility rules on a full-length match; for the two Golden
\* Retracement screeners also the gates on a full-length series
EvalChoices(s) ==
    [prefix : {<<6, 0>>}, registered : {TRUE}, name : {PlainName},
     defect : {"none", "unreadable"}, n : 0..MaxBars, shape : Shapes \cup GapShapes]
    \cup
    [prefix : {<<6, 0>>, <<0, 0>>, <<3, 0>>, <<6, 8>>}, registered : BOOLEAN,
     name : {PlainName, STName}, defect : Defects, n : {MaxBars}, shape : Shapes]
    \cup
    (IF s \in {"Premium", "Strategy"}
     THEN [prefix : {<<6, 0>>}, registered : {TRUE}, name : {PlainName},
           defect : {"none"}, n : {MaxBars}, shape : GateShapes]
     ELSE {})

(***************************************************************************)
(* State.                                                                  *)
(***************************************************************************)
VARIABLES
    screener,      \* which of the five scripts runs
    stock_data,    \* the files of ./stock_data, in the order main lists them
    stock_names,   \* the rows of stock_names.csv
    pc,            \* where main is: "scan", "joined", "done", "aborted"
    task,          \* per file: "pending", "running", "done"
    ret,           \* per file: what its task returned
    completed,     \* the files in the order their tasks completed
    results,       \* main's list of collected results
    final_list,    \* the results that are not None
    output_df,     \* the rows main reports
    outcome,       \* "saved" or "no_candidates"
    series,        \* a close series handed to cal_rsi
    rsi            \* the last cal_rsi evaluation: [n, at, value]

vars ==
    <<screener, stock_data, stock_names, pc, task, ret, completed, results,
      final_list, output_df, outcome, series, rsi>>

NoRsi == [n |-> 0, at |-> 0, value |-> RNaN]

\* main up to the fan-out
StartOfMain(s, files, names) ==
    /\ screener = s
    /\ stock_data = files
    /\ stock_names = names
    /\ pc = "scan"
    /\ task = [i \in 1..Len(files) |-> "pending"]
    /\ ret = [i \in 1..Len(files) |-> NoMatch]
    /\ completed = <<>>
    /\ results = <<>>
    /\ final_list = <<>>
    /\ output_df = <<>>
    /\ outcome = "running"
    /\ series = <<>>
    /\ rsi = NoRsi

ScanFile(ch, i) ==
    MkFile(CodeAt(ScanPrefix(i), i), ch[i].defect,
           Rows(MaxBars, ch[i].shape.t1, ch[i].shape.t0, ch[i].shape.gap))

Init ==
    \E s \in Screeners : \E k \in 0..MaxUniverse : \E ch \in [1..k -> ScanChoices] :
        StartOfMain(s,
                    [i \in 1..k |-> ScanFile(ch, i)],
                    [i \in 1..k |-> [code |-> CodeAt(ScanPrefix(i), i), name |-> ch[i].name]])

InitEval ==
    \E s \in Screeners : \E c \in EvalChoices(s) :
        StartOfMain(s,
                    <<MkFile(CodeAt(c.prefix, 1), c.defect,
                             Rows(c.n, c.shape.t1, c.shape.t0, c.shape.gap))>>,
                    IF c.registered
                    THEN <<[code |-> CodeAt(c.prefix, 1), name |-> c.name]>>
                    ELSE <<>>)

(***************************************************************************)
(* Actions.                                                                *)
(***************************************************************************)
\* a pool worker takes the task of file i
Start(i) ==
    /\ pc = "scan"
    /\ screener \in Pooled
    /\ task[i] = "pending"
    /\ task' = [task EXCEPT ![i] = "running"]
    /\ UNCHANGED <<screener, stock_data, stock_names, pc, ret, completed, results,
                   final_list, output_df, outcome, series, rsi>>

\* the worker returns: the task's result travels back to the pool
Finish(i) ==
    /\ pc = "scan"
    /\ screener \in Pooled
    /\ task[i] = "running"
    /\ task' = [task EXCEPT ![i] = "done"]
    /\ ret' = [ret EXCEPT ![i] = Evaluate(screener, stock_data[i], stock_names)]
    /\ completed' = Append(completed, i)
    /\ UNCHANGED <<screener, stock_data, stock_names, pc, results, final_list,
                   output_df, outcome, series, rsi>>

\* the tasks the pool call waits for before it returns
Resolved(tk) == \A i \in DOMAIN tk : tk[i] = "done"

\* a list filled as the tasks complete
GatherAsCompleted(rt, done_order) == [k \in DOMAIN done_order |-> rt[done_order[k]]]

\* the list the pool call returns: the tasks' results in the order of the
\* files, whatever the order of completion
Gather(rt, done_order) == [i \in DOMAIN rt |-> rt[i]]

\* pool.starmap / executor.map / Parallel return once every task is resolved;
\* an exception of a task is raised in main
Join ==
    /\ pc = "scan"
    /\ screener \in Pooled
    /\ Resolved(task)
    /\ IF \E i \in DOMAIN ret : ret[i].kind = "Fault"
       THEN pc' = "aborted" /\ UNCHANGED results
       ELSE pc' = "joined" /\ results' = Gather(ret, completed)
    /\ UNCHANGED <<screener, stock_data, stock_names, task, ret, completed, final_list,
                   output_df, outcome, series, rsi>>

\* yin_line_logic.main: one pass of the loop over the files
LoopStep ==
    /\ pc = "scan"
    /\ screener = "YinLine"
    /\ \E i \in DOMAIN task :
        /\ task[i] = "pending"
        /\ \A j \in DOMAIN task : j < i => task[j] = "done"
        /\ LET r == Evaluate(screener, stock_data[i], stock_names)
           IN /\ task' = [task EXCEPT ![i] = "done"]
              /\ ret' = [ret EXCEPT ![i] = r]
              /\ completed' = Append(completed, i)
              /\ results' = IF IsSignal(r) THEN Append(results, r) ELSE results
              /\ pc' = IF r.kind = "Fault" THEN "aborted" ELSE pc
    /\ UNCHANGED <<screener, stock_data, stock_names, final_list, output_df, outcome,
                   series, rsi>>

\* yin_line_logic.main: the loop ends
LoopEnd ==
    /\ pc = "scan"
    /\ screener = "YinLine"
    /\ Resolved(task)
    /\ pc' = "joined"
    /\ UNCHANGED <<screener, stock_data, stock_names, task, ret, completed, results,
                   final_list, output_df, outcome, series, rsi>>

\* the rest of main: filter, rank, report
Report ==
    /\ pc = "joined"
    /\ final_list' = not_none(results)
    /\ output_df' = output_of(screener, not_none(results), stock_names)
    /\ outcome' = outcome_of(screener, not_none(results),
                             output_of(screener, not_none(results), stock_names))
    /\ pc' = "done"
    /\ UNCHANGED <<screener, stock_data, stock_names, task, ret, completed, results,
                   series, rsi>>

Next ==
    \/ \E i \in DOMAIN task : Start(i)
    \/ \E i \in DOMAIN task : Finish(i)
    \/ Join
    \/ LoopStep
    \/ LoopEnd
    \/ Report

Spec == Init /\ [][Next]_vars

SpecEval == InitEval /\ [][Next]_vars

(***************************************************************************)
(* The ranking step alone: main from the collected results on, for the     *)
(* three screeners that sort.                                              *)
(***************************************************************************)
Sorting == {"Premium", "Strategy", "YinLine"}

\* the values of the key column a screener can emit (Premium: 60 + 20 + 20,
\* Strategy: 40 + 30 + 30, YinLine: RSI6 within its band, in hundredths)
Keys(s) ==
    CASE s = "Premium" -> {60, 80, 100}
      [] s = "Strategy" -> {30, 70, 100}
      [] s = "YinLine" -> {5714, 6000, 8200}

\* the i-th collected Signal, with key k
SignalAt(s, i, k) ==
    CASE s = "Premium" ->
           [kind |-> "Signal", code |-> CodeAt(<<6, 0>>, i), name |-> PlainName,
            price |-> 1070, pct |-> 6, strength |-> FormatScore(k),
            advice |-> Premium_advice(k), stop |-> 1010]
      [] s = "Strategy" ->
           [kind |-> "Signal", code |-> CodeAt(<<6, 0>>, i), name |-> PlainName,
            price |-> 1070, strength |-> FormatScore(k),
            advice |-> Strategy_advice(k), stop |-> 1010]
      [] s = "YinLine" ->
           [kind |-> "Signal", code |-> CodeAt(<<6, 0>>, i), name |-> PlainName,
            price |-> 1020, type |-> "MA10", RSI6 |-> k]

InitRank ==
    \E s \in Sorting : \E k \in 0..MaxSignals : \E ks \in [1..k -> Keys(s)] :
        /\ screener = s
        /\ stock_data = <<>>
        /\ stock_names = <<>>
        /\ pc = "joined"
        /\ task = <<>>
        /\ ret = <<>>
        /\ completed = <<>>
        /\ results = [i \in 1..k |-> SignalAt(s, i, ks[i])]
        /\ final_list = <<>>
        /\ output_df = <<>>
        /\ outcome = "running"
        /\ series = <<>>
        /\ rsi = NoRsi

SpecRank == InitRank /\ [][Report]_vars

(***************************************************************************)
(* cal_rsi alone, on close series grown bar by bar.                        *)
(***************************************************************************)
InitRsi ==
    /\ screener = "YinLine"
    /\ stock_data = <<>>
    /\ stock_names = <<>>
    /\ pc = "indicators"
    /\ task = <<>>
    /\ ret = <<>>
    /\ completed = <<>>
    /\ results = <<>>
    /\ final_list = <<>>
    /\ output_df = <<>>
    /\ outcome = "running"
    /\ series = <<>>
    /\ rsi = NoRsi

\* one more bar of the close column
AppendClose ==
    /\ pc = "indicators"
    /\ rsi = NoRsi
    /\ Len(series) < MaxCloses
    /\ \E c \in {1000, 1010} : series' = Append(series, c)
    /\ UNCHANGED <<screener, stock_data, stock_names, pc, task, ret, completed, results,
                   final_list, output_df, outcome, rsi>>

\* df['rsi6'] = cal_rsi(df['收盘'], 6); df['rsi12'] = cal_rsi(df['收盘'], 12):
\* the value at the last bar
CalRsi ==
    /\ pc = "indicators"
    /\ rsi = NoRsi
    /\ series # <<>>
    /\ \E n \in {6, 12} :
        rsi' = [n |-> n, at |-> Len(series), value |-> cal_rsi(series, n, Len(series))]
    /\ UNCHANGED <<screener, stock_data, stock_names, pc, task, ret, completed, results,
                   final_list, output_df, outcome, series>>

NextRsi == AppendClose \/ CalRsi

SpecRsi == InitRsi /\ [][NextRsi]_vars

(***************************************************************************)
(* Properties.                                                             *)
(***************************************************************************)
\* what the guarded part of a file's task does before the symbol boundary
\* turns a fault into None
TryOf(s, file, names) ==
    CASE s = "Premium" -> Premium_try(file, name_dict(names))
      [] s = "Strategy" -> Strategy_try(file, name_dict(names))
      [] s = "OnePattern" -> OnePattern_try(file)
      [] s = "YinLine" -> YinLine_try(file, name_map(names))
      [] s = "Reversal" ->
           IF ~check_stock_code_and_name(file.code, stock_name_df(names)) THEN NoMatch
           ELSE Reversal_try(file)

Faults(i) == TryOf(screener, stock_data[i], stock_names).kind = "Fault"

\* the files of the universe whose task raises no fault
Healthy == SelectSeq(stock_data, LAMBDA f : TryOf(screener, f, stock_names).kind # "Fault")

Reverse(sq) == [i \in 1..Len(sq) |-> sq[Len(sq) + 1 - i]]

\* the number in a 信号强度 text
ScoreOf(sig) == IntOf(SubSeq(sig.strength, 1, Len(sig.strength) - 1))

\* the registry names a symbol with the special-treatment marker
HasSTName(code) ==
    \E r \in DOMAIN stock_names :
        stock_names[r].code = code /\ Contains(stock_names[r].name, ST)

\* C1: per-symbol fault isolation.  Whatever files of the universe raise a
\* fault while loading, computing indicators or evaluating gates, no fault
\* reaches main; each faulting file contributes None; and the Signals
\* collected are exactly those of a scan of the universe without the
\* faulting files.
C1_FaultIsolation ==
    /\ pc # "aborted"
    /\ \A i \in DOMAIN task : task[i] = "done" /\ Faults(i) => ret[i] = NoMatch
    /\ pc = "done" =>
         final_list =
           not_none([j \in 1..Len(Healthy) |-> Evaluate(screener, Healthy[j], stock_names)])

\* a finished scan of a universe with a faulting file and a matching file
C1_Witness ==
    /\ pc = "done"
    /\ \E i \in DOMAIN task : Faults(i)
    /\ final_list # <<>>

\* C2: ranking is independent of the collection order: ranking the collected
\* Signals and ranking them in reverse order give the same sequence.
C2_RankingIgnoresOrder ==
    pc = "done" /\ screener \in Sorting =>
        output_df = output_of(screener, Reverse(final_list), stock_names)

\* C3: Golden_Retracement_Premium keeps the five best: the kept rows are in
\* non-increasing order of the numeric score, and no discarded Signal has a
\* score above a kept one's.
C3_TopFiveByScore ==
    pc = "done" /\ screener = "Premium" =>
        /\ \A a, b \in DOMAIN output_df :
              a < b => ScoreOf(output_df[a]) >= ScoreOf(output_df[b])
        /\ \A d \in DOMAIN final_list : \A k \in DOMAIN output_df :
              (\A m \in DOMAIN output_df : output_df[m].code # final_list[d].code)
                  => ScoreOf(final_list[d]) <= ScoreOf(output_df[k])

\* C4: RSI saturation: at a bar where the losses of the last n bars sum to
\* zero (their rolling mean is exactly zero), cal_rsi returns exactly 100,
\* also when the gains are zero too.
C4_RsiSaturates ==
    rsi.n > 0 /\ rsi.at >= rsi.n /\ SumLoss(series, rsi.at - rsi.n + 1, rsi.at) = 0
        => rsi.value = <<100, 1>>

\* C5: special-treatment exclusion: in each of the five screeners no symbol
\* whose registry name contains "ST" is in the reported result.
C5_STExcluded ==
    pc = "done" =>
        \A i \in DOMAIN stock_data : HasSTName(stock_data[i].code) =>
            \A k \in DOMAIN output_df : output_df[k].code # stock_data[i].code

\* an indicator value a gate reads on the evaluated bars is undefined
UndefinedRead(s, df) ==
    LET n == Len(df)
    IN CASE s = "Reversal" ->
              \/ IsNaN(Low_Reversal_Check(df, n))
              \/ \E w \in {5, 20} : IsNaN(RollSum(df, "close", w, n))
              \/ \E w \in {5, 20} : IsNaN(RollSum(df, "volume", w, n))
         [] s = "Premium" ->
              IsNaN(MA21_Slope(df, n)) \/ IsNaN(MA21(df, n - 1)) \/ IsNaN(V_MA5(df, n - 1))
         [] s = "Strategy" -> IsNaN(MA21(df, n - 1))
         [] s = "OnePattern" ->
              IsNaN(RollSum(df, "close", 20, n)) \/ IsNaN(RollSum(df, "close", 20, n - 5))
         [] s = "YinLine" ->
              \/ RIsNaN(cal_rsi(Closes(df), 6, n))
              \/ RIsNaN(cal_rsi(Closes(df), 12, n))
              \/ \E w \in {5, 10, 20} : IsNaN(RollSum(df, "close", w, n))
              \/ IsNaN(RollSum(df, "close", 20, n - 1))
              \/ IsNaN(RollSum(df, "volume", 5, n))

\* C6: undefined indicators never match: when an indicator value read by a
\* gate on the evaluated bar is NaN, the evaluation returns NoMatch.
C6_UndefinedNeverMatches ==
    \A i \in DOMAIN task :
        (/\ task[i] = "done"
         /\ Len(stock_data[i].rows) >= 6
         /\ UndefinedRead(screener, stock_data[i].rows))
            => ~IsSignal(ret[i])

\* C7: the volume contraction of the setup bar is a required gate: every
\* Signal of the two Golden Retracement evaluators has a setup bar whose
\* volume is strictly below 0.9 times (Premium) or 1.2 times (Strategy) its
\* trailing 5-bar volume average.
C7_SetupVolumeContracted ==
    \A i \in DOMAIN task :
        task[i] = "done" /\ IsSignal(ret[i]) =>
            LET df == stock_data[i].rows
                n == Len(df)
            IN /\ screener = "Premium" => 50 * df[n - 1].volume < 9 * V_MA5(df, n - 1)
               /\ screener = "Strategy" => 25 * df[n - 1].volume < 6 * V_MA5(df, n - 1)

\* the setup bar of file i has a zero body
ZeroBody(i) ==
    /\ Len(stock_data[i].rows) >= 2
    /\ LET t_1 == stock_data[i].rows[Len(stock_data[i].rows) - 1]
       IN t_1.open = t_1.close

\* C8: a zero-body setup bar never matches: in both Golden Retracement
\* evaluators, when the setup bar's open equals its close the shaved-bottom
\* gate is false and the evaluation is NoMatch, reached without a fault when
\* the file itself has no defect.
C8_ZeroBodyNeverMatches ==
    \A i \in DOMAIN task :
        task[i] = "done" /\ screener \in {"Premium", "Strategy"} /\ ZeroBody(i) =>
            LET f == stock_data[i]
                t_1 == f.rows[Len(f.rows) - 1]
            IN /\ ~Premium_is_shaved(t_1)
               /\ ~is_shaved_bottom(t_1)
               /\ ret[i] = NoMatch
               /\ f.readable /\ f.columns = AllColumns
                    => TryOf(screener, f, stock_names) = NoMatch

\* an evaluated zero-body setup bar with no lower shadow and low volume under
\* a bullish latest bar: every gate but the shape of the body would pass
C8_Witness ==
    /\ screener = "Premium"
    /\ pc = "done"
    /\ ZeroBody(1)
    /\ LET df == stock_data[1].rows
           n == Len(df)
       IN /\ n >= 40
          /\ lower_shadow(df[n - 1]) = 0
          /\ Premium_is_extreme_low_vol(df, n - 1)
          /\ Premium_is_positive(df[n])
          /\ Premium_is_reclaim(df[n], df[n - 1])
          /\ GT(MA21_Slope(df, n), 0)
          /\ GE(Scale(21, df[n - 1].close), MA21(df, n - 1))

\* C9: join barrier and independence of interleaving in the pooled
\* screeners: nothing is collected while tasks run, main goes on only when
\* every task is resolved, and the collected list and the reported rows are
\* those of the universe in its own order, whatever the order of completion.
C9_JoinBarrier ==
    screener \in Pooled =>
        /\ pc = "scan" => results = <<>> /\ output_df = <<>>
        /\ pc \in {"joined", "done"} =>
              /\ \A i \in DOMAIN task : task[i] = "done"
              /\ results =
                   [i \in 1..Len(stock_data) |->
                       Evaluate(screener, stock_data[i], stock_names)]
        /\ pc = "done" =>
              output_df =
                output_of(screener,
                          not_none([i \in 1..Len(stock_data) |->
                                       Evaluate(screener, stock_data[i], stock_names)]),
                          stock_names)

\* a reported scan whose second task completed before its first
C9_Witness ==
    /\ screener \in Pooled
    /\ pc = "done"
    /\ completed = <<2, 1>>
    /\ IsSignal(results[1])
    /\ results[2] # results[1]
    /\ output_df # <<>>

\* C10: insufficient history is NoMatch: a series shorter than the
\* screener's minimum history (40, 30, 60, 60, 20 bars), the empty series
\* included, evaluates to NoMatch, and no fault reaches main.
C10_ShortHistoryNoMatch ==
    /\ pc # "aborted"
    /\ \A i \in DOMAIN task :
          (/\ task[i] = "done"
           /\ Len(stock_data[i].rows) <
                (CASE screener = "Premium" -> 40
                   [] screener = "Strategy" -> 30
                   [] screener = "OnePattern" -> 60
                   [] screener = "YinLine" -> 60
                   [] screener = "Reversal" -> 20))
              => ret[i] = NoMatch

\* an evaluated series one bar short of Premium's minimum whose last bars
\* pass every gate
C10_Witness ==
    /\ screener = "Premium"
    /\ pc = "done"
    /\ Len(stock_data[1].rows) = 39
    /\ stock_data[1].readable
    /\ Premium_match(stock_data[1].rows, 39)
    /\ ret[1] = NoMatch

\* C11: empty universe: when ./stock_data holds no file, main never aborts,
\* always has a next step until it has reported, reports no row, and ends in
\* the "no candidates" branch, in every screener.
C11_EmptyUniverse ==
    stock_data = <<>> =>
        /\ pc # "aborted"
        /\ pc # "done" => ENABLED Next
        /\ results = <<>> /\ final_list = <<>> /\ output_df = <<>>
        /\ outcome = (IF pc = "done" THEN "no_candidates" ELSE "running")

\* a finished run over an empty universe
C11_Witness ==
    /\ stock_data = <<>>
    /\ pc = "done"
    /\ outcome = "no_candidates"

\* C12: the confirmation gate of Golden_Retracement_Premium enforces volume
\* expansion: the latest bar of every Signal closes above its open and has
\* more than 1.2 times the volume of the setup bar.
C12_PremiumVolumeExpansion ==
    \A i \in DOMAIN task :
        task[i] = "done" /\ screener = "Premium" /\ IsSignal(ret[i]) =>
            LET df == stock_data[i].rows
                n == Len(df)
            IN /\ df[n].close > df[n].open
               /\ 5 * df[n].volume > 6 * df[n - 1].volume

====
